---- MODULE Spec2Model ----
(***************************************************************************)
(* A model of the skein publishing engine (class Site): the publish       *)
(* pipeline, the entry index, the regeneration of the derived pages, the  *)
(* slug allocator and the webmention receiver, as a state machine whose   *)
(* steps are the code's await points.                                     *)
(***************************************************************************)
EXTENDS Integers, Sequences, FiniteSets, TLC

(* ---------------------------------------------------------------------- *)
(* Bounds of the model                                                     *)
(* ---------------------------------------------------------------------- *)

\* most calls (publish, delete, receiveWebmention) started in one behaviour
MaxCalls == 2

\* the clock (new Date()) runs over 0..MaxTime
MaxTime == 2

\* most failures of the store and of remote sites in one behaviour
MaxFailures == 1

\* config.entriesPerPage
entriesPerPage == 1

\* most objects in the store a scan starts from
MaxObjects == 3

(* ---------------------------------------------------------------------- *)
(* Values                                                                  *)
(* ---------------------------------------------------------------------- *)

\* JavaScript's undefined / null, for optional string fields
Undefined == "<undefined>"

\* no process
None == "<none>"

\* config.url
SiteUrl == "http://site"

\* the remote pages a webmention may name as its source
SourceUrls == {"http://remote/a"}

\* the tail by which one URL can extend another (a longer URL with the same prefix)
UrlTails == {"", "1", "x"}

PubProcs == {"p1", "p2"}
RecvProcs == {"r1"}
DelProcs == {"d1"}

(* ---------------------------------------------------------------------- *)
(* Sequence helpers (util.chunk, util.flatten, util.unique, util.range)    *)
(* ---------------------------------------------------------------------- *)

Range(s) == {s[i] : i \in DOMAIN s}

Min(a, b) == IF a < b THEN a ELSE b

\* util.chunk(limit, arr): consecutive pieces of `limit` elements, the last one shorter
chunk(limit, arr) ==
    [i \in 1 .. ((Len(arr) + limit - 1) \div limit) |->
        SubSeq(arr, (i - 1) * limit + 1, Min(i * limit, Len(arr)))]

RECURSIVE flatten(_)
\* util.flatten(arrs): the concatenation of the arrays
flatten(arrs) == IF arrs = <<>> THEN <<>> ELSE Head(arrs) \o flatten(Tail(arrs))

RECURSIVE unique(_)
\* util.unique(arr): the first occurrence of every element, in order
unique(arr) ==
    IF arr = <<>> THEN <<>>
    ELSE LET init == unique(SubSeq(arr, 1, Len(arr) - 1))
             last == arr[Len(arr)]
         IN IF last \in Range(init) THEN init ELSE Append(init, last)

\* util.kebabCase on the names and tags the model uses
kebabCase(s) ==
    CASE s = "Hello" -> "hello"
      [] s = "hello" -> "hello"
      [] s = "Hello 1" -> "hello-1"
      [] OTHER -> s

(* ---------------------------------------------------------------------- *)
(* Entries (mf-obj Entry) and their documents                              *)
(* ---------------------------------------------------------------------- *)

isReply(e) == e.ref = "replyTo"
isLike(e) == e.ref = "likeOf"
\* mf-obj: an article is a post whose name is not just its text, and no reply
isArticle(e) == e.ref = "none" /\ e.name # e.content

\* the entry page of an entry (template/entrypage.jade): its microformat properties
renderEntry(e) == [ContentType |-> "text/html", kind |-> "entry", mf |-> e]

\* mfo.getEntryFromHtml succeeds on the page of one entry
isEntryDoc(doc) == doc.ContentType = "text/html" /\ doc.kind = "entry"

\* mfo.getEntryFromHtml(html, url): the entry the page's markup gives; a summary
\* marked up inside the content becomes a property
getEntryFromHtml(doc) ==
    [doc.mf EXCEPT !.summary = IF doc.mf.content = "Hi <p-summary>" THEN "S" ELSE @]

\* entry.getPath(): the path of the entry's URL
getPath(e) == e.path

\* a stream, tag or article page: the URLs of the entries it lists
listPage(kind, es, page, total) ==
    [ContentType |-> "text/html", kind |-> kind,
     urls |-> [i \in DOMAIN es |-> es[i].url], page |-> page, total |-> total]

(* ---------------------------------------------------------------------- *)
(* The entry index: a Map from URL to Entry, kept in insertion order       *)
(* ---------------------------------------------------------------------- *)

indexOf(idx, u) == {i \in DOMAIN idx : idx[i].url = u}

has(idx, u) == indexOf(idx, u) # {}

\* Map.get
mapGet(idx, u) == idx[CHOOSE i \in indexOf(idx, u) : TRUE]

\* Map.set: an existing key keeps its place, a new key goes last
mapSet(idx, e) ==
    IF has(idx, e.url)
    THEN [i \in DOMAIN idx |-> IF idx[i].url = e.url THEN e ELSE idx[i]]
    ELSE Append(idx, e)

\* Map.delete
mapDelete(idx, u) == SelectSeq(idx, LAMBDA e : e.url # u)

RECURSIVE insertDesc(_, _)
\* insert e into a list sorted by date descending, after the entries not older than it
insertDesc(sorted, e) ==
    IF sorted = <<>> THEN <<e>>
    ELSE IF Head(sorted).published >= e.published
         THEN <<Head(sorted)>> \o insertDesc(Tail(sorted), e)
         ELSE <<e>> \o sorted

RECURSIVE sortByDateDesc(_)
\* entries.sort(mfo.Entry.byDateDesc): newest first, ties in index order
sortByDateDesc(es) ==
    IF es = <<>> THEN <<>>
    ELSE insertDesc(sortByDateDesc(SubSeq(es, 1, Len(es) - 1)), es[Len(es)])

(* ---------------------------------------------------------------------- *)
(* Regeneration of the derived pages (Site.generateStreams)                *)
(* ---------------------------------------------------------------------- *)

hiddenFilter(e) == ~(\E i \in DOMAIN e.category : e.category[i] = "hidden")

mainFilterBroken(e) == ~isReply(e)
mainFilter(e) == ~isReply(e) /\ ~isLike(e)

replyFilterRepliesOnly(e) == isReply(e)
replyFilter(e) == isReply(e) \/ isLike(e)

articleFilter(e) == isArticle(e)

getPathForIndex(page) == "index" \o (IF page = 1 THEN "" ELSE ToString(page))

getPathForTag(category) == "/tags/" \o kebabCase(category)

\* _generateStream: the put of one page of the main stream
generateStream(es, page, total) ==
    [key |-> getPathForIndex(page), doc |-> listPage("stream", es, page, total)]

\* _generateReplyStream: the put of one page of the reply stream
generateReplyStream(es, page, total) ==
    [key |-> "replies/" \o getPathForIndex(page), doc |-> listPage("replies", es, page, total)]

\* _generateIndex: the put of a tag page or of the articles page
generateIndex(es, category, path) ==
    [key |-> path, doc |-> listPage(category, es, 1, 1)]

\* the main-stream chunks of an index
mainChunks(idx) ==
    chunk(entriesPerPage,
          SelectSeq(SelectSeq(sortByDateDesc(idx), mainFilter), hiddenFilter))

\* the reply-stream chunks of an index
replyChunks(idx) ==
    chunk(entriesPerPage,
          SelectSeq(SelectSeq(sortByDateDesc(idx), replyFilter), hiddenFilter))

\* the tags of an index, in order of first use
tagsOf(idx) ==
    LET sorted == sortByDateDesc(idx)
    IN unique(flatten([i \in DOMAIN sorted |-> sorted[i].category]))

\* generateStreams(): the puts it issues for the index it finds, in order
generateStreams(idx) ==
    LET sorted == sortByDateDesc(idx)
        mains == mainChunks(idx)
        reps == replyChunks(idx)
        tags == tagsOf(idx)
    IN [i \in DOMAIN mains |-> generateStream(mains[i], i, Len(mains))]
       \o [i \in DOMAIN reps |-> generateReplyStream(reps[i], i, Len(reps))]
       \o [i \in DOMAIN tags |->
             generateIndex(SelectSeq(sorted,
                                     LAMBDA e : \E j \in DOMAIN e.category : e.category[j] = tags[i]),
                           "Posts tagged " \o tags[i], getPathForTag(tags[i]))]
       \o <<generateIndex(SelectSeq(sorted, LAMBDA e : isArticle(e)), "Articles", "/articles")>>

RECURSIVE applyPuts(_, _)
\* the store after a sequence of puts
applyPuts(st, puts) ==
    IF puts = <<>> THEN st
    ELSE LET p == Head(puts)
         IN applyPuts([k \in DOMAIN st \cup {p.key} |-> IF k = p.key THEN p.doc ELSE st[k]],
                      Tail(puts))

(* ---------------------------------------------------------------------- *)
(* The slug allocator (Site.getSlug, Site.getNextAvailable)                *)
(* ---------------------------------------------------------------------- *)

\* the clock ticks of one calendar day
TicksPerDay == 2

\* a JavaScript value that is the string s or the number v
jsString(s) == [t |-> "string", s |-> s, v |-> 0]
jsNumber(v) == [t |-> "number", s |-> "", v |-> v]

\* prefix + n
jsConcat(prefix, n) == IF n.t = "string" THEN prefix \o n.s ELSE prefix \o ToString(n.v)

\* n++ : a string is converted to a number first, and "" converts to 0
jsInc(n) == IF n.t = "string" THEN jsNumber(1) ELSE jsNumber(n.v + 1)

\* '/' + date.getFullYear() + '/' + (date.getMonth() + 1) + '/' + date.getDate()
datepart(date) == "/2024/3/" \o ToString(2 + (date \div TicksPerDay))

\* getSlug(name, date): the first candidate and the prefix getNextAvailable starts from
getSlugStart(name, date) ==
    IF name # Undefined
    THEN [n |-> jsString(""), prefix |-> datepart(date) \o "/" \o kebabCase(name)]
    ELSE [n |-> jsNumber(1), prefix |-> datepart(date) \o "/"]

(* ---------------------------------------------------------------------- *)
(* Submissions (interface Micropub) and what publish builds from them      *)
(* ---------------------------------------------------------------------- *)

\* entry.getMentions(): the links in the content
getMentions(e) ==
    CASE e.content = "Hi <http://example.com>" -> <<"http://example.com">>
      [] e.content = "Hi <http://example.com> <http://example.org>" ->
            <<"http://example.com", "http://example.org">>
      [] OTHER -> <<>>

\* lines 139-189: the entry built from the submission m at time date
buildEntry(m, date) ==
    [url |-> Undefined, path |-> Undefined,
     name |-> IF m.name # Undefined /\ m.name # "" THEN m.name ELSE m.content,
     content |-> m.content, summary |-> Undefined,
     published |-> date,
     ref |-> m.ref,
     category |-> m.category,
     syndication |-> <<>>,
     syndicateTo |-> m.syndicateTo,
     photo |-> m.photo,
     embed |-> <<>>,
     children |-> <<>>]

NoEntry == buildEntry([name |-> Undefined, content |-> "", ref |-> "none", category |-> <<>>,
                       syndicateTo |-> FALSE, photo |-> Undefined], 0)

sub(nm, content, rf, cat, synd, photo) ==
    [name |-> nm, content |-> content, ref |-> rf, category |-> cat, syndicateTo |-> synd,
     photo |-> photo]

\* the submissions of the sequential specification
Submissions ==
    {sub("Hello", "Hi", "none", <<>>, FALSE, Undefined),
     sub(Undefined, "Hi", "none", <<"x">>, FALSE, Undefined),
     sub("Hello", "Hi", "replyTo", <<"x", "hidden">>, FALSE, Undefined),
     sub(Undefined, "Hi", "likeOf", <<>>, FALSE, Undefined),
     sub("Hello", "Hi <p-summary>", "none", <<"hidden">>, FALSE, Undefined),
     sub("Hello", "Hi <http://example.com> <http://example.org>", "none", <<>>, TRUE, "pic.jpg"),
     sub("Hello", "Hi", "none", <<>>, FALSE, "hello")}

(* ---------------------------------------------------------------------- *)
(* State                                                                   *)
(* ---------------------------------------------------------------------- *)

VARIABLES
    store,      \* the content store: key -> document
    entries,    \* this.entries, the entry index, in Map order
    mutex,      \* this.mutex: its holder and the callers waiting for it
    now,        \* the clock
    calls,      \* the number of calls started
    failures,   \* the number of failures of the store and of remote sites so far
    pub,        \* the publish calls: where each is and its local variables
    rcv,        \* the receiveWebmention calls
    del,        \* the delete calls
    scn,        \* the scan() call
    val,        \* the validate() call
    auth,       \* the authorization endpoints: lastIssuedCode and the requests for tokens
    lim         \* the closure of one rateLimit(count, cooldown) and its clock

vars == <<store, entries, mutex, now, calls, failures, pub, rcv, del, scn, val, auth, lim>>

NoStore == [k \in {} |-> 0]

\* no submission yet, and no answer of mfo.getEntry yet
NoSubmission == sub(Undefined, "", "none", <<>>, FALSE, Undefined)
NoFetch == [ok |-> FALSE, links |-> {Undefined}]

PubIdle ==
    [pc |-> "idle", m |-> NoSubmission, entry |-> NoEntry, n |-> jsNumber(0),
     prefix |-> "", second |-> FALSE, puts |-> <<>>, live |-> FALSE, i |-> 0,
     tried |-> <<>>, sent |-> <<>>, log |-> <<>>, releases |-> 0, late |-> FALSE,
     before |-> [store |-> NoStore, entries |-> <<>>], at |-> "", err |-> "",
     gens |-> 0, committed |-> FALSE]

RcvIdle ==
    [pc |-> "idle", source |-> "", target |-> "", fetched |-> NoFetch,
     targetEntry |-> NoEntry, live |-> FALSE, status |-> 0,
     before |-> [store |-> NoStore, entries |-> <<>>], at |-> "", err |-> "",
     gens |-> 0, committed |-> FALSE]

DelIdle ==
    [pc |-> "idle", url |-> "", entry |-> NoEntry, puts |-> <<>>,
     at |-> "", err |-> ""]

ScanIdle ==
    [pc |-> "idle", keys |-> {}, entries |-> <<>>, before |-> <<>>,
     seen |-> [at |-> "idle", index |-> <<>>], err |-> ""]

\* the locals of validate(): expected and actual are declared with var, so they
\* keep their value from one key of the loop to the next; NoEntry stands for
\* undefined
ValIdle ==
    [pc |-> "idle", keys |-> {}, expected |-> NoEntry, actual |-> NoEntry,
     failures |-> <<>>, err |-> ""]

\* the codes of POST /auth are 1, 2, ...
NoCode == [null |-> TRUE, code |-> 0, date |-> 0]

TokProcs == {"t1", "t2"}

TokIdle == [pc |-> "idle", code |-> 0, status |-> 0]

\* lastIssuedCode is null at start (line 25); invoked lists the codes generateToken
\* was called for, redeemed the codes a token was answered for
AuthIdle ==
    [lastIssuedCode |-> NoCode, clock |-> 0, issued |-> 0, status |-> 0,
     invoked |-> <<>>, redeemed |-> {}, stale |-> {},
     tok |-> [t \in TokProcs |-> TokIdle]]

\* rateLimit(3, 1000 * 60), the limiter of POST /token (line 136)
count == 3
cooldown == 1000 * 60

\* the closure when rateLimit returns (lines 79-80): lastreq = new Date(), capacity =
\* count. The code's capacity is a fraction; the field holds capacity * cooldown, so
\* that the refill (new Date() - lastreq) * (count / cooldown) is a whole number
LimitIdle ==
    [clock |-> 0, lastreq |-> 0, capacity |-> count * cooldown, admitted |-> 0,
     rejected |-> 0]

Init ==
    /\ lim = LimitIdle
    /\ scn = ScanIdle
    /\ val = ValIdle
    /\ auth = AuthIdle
    /\ store = NoStore
    /\ entries = <<>>
    /\ mutex = [holder |-> None, queue |-> <<>>]
    /\ now = 0
    /\ calls = 0
    /\ failures = 0
    /\ pub = [p \in PubProcs |-> PubIdle]
    /\ rcv = [r \in RecvProcs |-> RcvIdle]
    /\ del = [d \in DelProcs |-> DelIdle]

(* ---------------------------------------------------------------------- *)
(* util.Mutex                                                              *)
(* ---------------------------------------------------------------------- *)

\* mutex.lock(): the caller waits in line
lock(mx, p) == [mx EXCEPT !.queue = Append(@, p)]

\* the lock is handed to the first waiting caller when it is free
granted(mx, p) == mx.holder = None /\ mx.queue # <<>> /\ Head(mx.queue) = p

take(mx, p) == [holder |-> p, queue |-> Tail(mx.queue)]

\* release(): the function lock() resolved to; it frees the lock once
release(mx, p) == IF mx.holder = p THEN [mx EXCEPT !.holder = None] ELSE mx

(* ---------------------------------------------------------------------- *)
(* The content store (Publisher)                                           *)
(* ---------------------------------------------------------------------- *)

exists(st, key) == key \in DOMAIN st

put(st, key, doc) == [k \in DOMAIN st \cup {key} |-> IF k = key THEN doc ELSE st[k]]

remove(st, key) == [k \in DOMAIN st \ {key} |-> st[k]]

\* whether every call slot is free: no call is in progress
finished(rec) == rec.pc \in {"idle", "done", "failed", "refused"}

Quiet ==
    /\ \A p \in PubProcs : finished(pub[p])
    /\ \A r \in RecvProcs : finished(rcv[r])
    /\ \A d \in DelProcs : finished(del[d])

\* entry objects are shared: once the index holds another object (or none) at the
\* URL, a call that still holds the old object no longer changes the index through it
detachPub(f, u, except) ==
    [q \in PubProcs |-> IF q # except /\ f[q].entry.url = u THEN [f[q] EXCEPT !.live = FALSE] ELSE f[q]]

detachRcv(f, u, except) ==
    [q \in RecvProcs |->
        IF q # except /\ f[q].targetEntry.url = u THEN [f[q] EXCEPT !.live = FALSE] ELSE f[q]]

(* ---------------------------------------------------------------------- *)
(* Site.publish, one action per await                                      *)
(* ---------------------------------------------------------------------- *)

\* a store call or a remote site fails
failure == failures < MaxFailures /\ failures' = failures + 1

\* the local variables of the calls that have returned are gone
sweepPub(f) == [q \in PubProcs |-> IF finished(f[q]) THEN PubIdle ELSE f[q]]
sweepRcv(f) == [q \in RecvProcs |-> IF finished(f[q]) THEN RcvIdle ELSE f[q]]
sweepDel(f) == [q \in DelProcs |-> IF finished(f[q]) THEN DelIdle ELSE f[q]]

getNextAvailableUnchecked(st, n, prefix) ==
    [found |-> TRUE, n |-> n, slug |-> jsConcat(prefix, n)]
getNextAvailableFromTwo(st, n, prefix) ==
    IF exists(st, jsConcat(prefix, n))
    THEN [found |-> FALSE, n |-> IF n.t = "string" THEN jsNumber(2) ELSE jsNumber(n.v + 1),
          slug |-> Undefined]
    ELSE [found |-> TRUE, n |-> n, slug |-> jsConcat(prefix, n)]
\* getNextAvailable(n, prefix), one turn of its loop on the answer of publisher.exists
getNextAvailable(st, n, prefix) ==
    IF exists(st, jsConcat(prefix, n))
    THEN [found |-> FALSE, n |-> jsInc(n), slug |-> Undefined]
    ELSE [found |-> TRUE, n |-> n, slug |-> jsConcat(prefix, n)]

\* the await publish reaches next, once the slug is known
afterPhoto(e) == IF getMentions(e) # <<>> THEN "oembed" ELSE "parse"
afterResolve(e) == IF e.photo # Undefined THEN "photo" ELSE afterPhoto(e)
afterSlug(e) == IF e.ref # "none" THEN "resolve" ELSE afterResolve(e)

\* what a finished call leaves behind
pubDone(rec) ==
    [PubIdle EXCEPT !.pc = "done", !.entry = rec.entry, !.before = rec.before,
                    !.releases = rec.releases, !.late = rec.late,
                    !.tried = rec.tried, !.sent = rec.sent, !.log = rec.log,
                    !.gens = rec.gens, !.committed = rec.committed]

pubFailed(rec, err) ==
    [PubIdle EXCEPT !.pc = "failed", !.entry = rec.entry, !.at = rec.pc,
                    !.releases = rec.releases, !.late = rec.late,
                    !.err = err, !.before = rec.before,
                    !.tried = rec.tried, !.sent = rec.sent, !.log = rec.log,
                    !.gens = rec.gens, !.committed = rec.committed]

\* release() is called by publish: one call more, and whether some other caller
\* holds the lock at that time
released(rec, p) ==
    [rec EXCEPT !.releases = @ + 1, !.late = @ \/ mutex.holder \notin {None, p}]

throwPubHolding(p, err) ==
    /\ pub' = [pub EXCEPT ![p] = pubFailed(released(pub[p], p), err)]
    /\ mutex' = mutex
\* an exception leaves publish through its finally block, which calls release()
throwPub(p, err) ==
    /\ pub' = [pub EXCEPT ![p] = pubFailed(released(pub[p], p), err)]
    /\ mutex' = release(mutex, p)

\* publish(m) is called: it asks for the lock (line 138)
publish(p, m) ==
    /\ finished(pub[p])
    /\ calls < MaxCalls
    /\ calls' = calls + 1
    /\ pub' = [sweepPub(pub) EXCEPT ![p] = [PubIdle EXCEPT !.pc = "lock", !.m = m]]
    /\ rcv' = sweepRcv(rcv)
    /\ del' = sweepDel(del)
    /\ mutex' = lock(mutex, p)
    /\ UNCHANGED <<store, entries, now, failures, scn, val, auth, lim>>

awaitLockMissing(p) == TRUE
\* var release = await this.mutex.lock() (line 138): publish goes on once the lock is its own
awaitLock(p) == granted(mutex, p)

\* the lock is granted: lines 139-160, up to the first publisher.exists of getSlug
publishLocked(p) ==
    /\ pub[p].pc = "lock"
    /\ awaitLock(p)
    /\ mutex' = take(mutex, p)
    /\ \E date \in {now, now + 1} :
        /\ date <= MaxTime
        /\ now' = date
        /\ LET start == getSlugStart(pub[p].m.name, date)
           IN pub' = [pub EXCEPT ![p].pc = "exists",
                                 ![p].entry = buildEntry(pub[p].m, date),
                                 ![p].n = start.n,
                                 ![p].prefix = start.prefix,
                                 ![p].before = [store |-> store, entries |-> entries]]
    /\ UNCHANGED <<store, entries, calls, failures, rcv, del, scn, val, auth, lim>>

\* publisher.exists answers (line 113); with the slug found, lines 161-164
publishExists(p) ==
    /\ pub[p].pc = "exists"
    /\ \/ /\ failure
          /\ throwPub(p, "StoreFailure")
       \/ LET r == getNextAvailable(store, pub[p].n, pub[p].prefix)
              e == [pub[p].entry EXCEPT !.url = SiteUrl \o r.slug, !.path = r.slug]
          IN /\ pub' = [pub EXCEPT ![p] =
                            IF r.found
                            THEN [@ EXCEPT !.pc = afterSlug(e), !.entry = e]
                            ELSE [@ EXCEPT !.n = r.n]]
             /\ UNCHANGED <<mutex, failures>>
    /\ UNCHANGED <<store, entries, now, calls, rcv, del, scn, val, auth, lim>>

publishResolveAfterUpdate(p) ==
    /\ pub[p].pc = "resolve"
    /\ \/ /\ failure
          /\ throwPub(p, "UpstreamFailure")
          /\ store' = put(store, getPath(pub[p].entry), renderEntry(pub[p].entry))
          /\ entries' = mapSet(entries, pub[p].entry)
       \/ /\ pub' = [pub EXCEPT ![p].pc = afterResolve(pub[p].entry)]
          /\ UNCHANGED <<store, entries, mutex, failures>>
    /\ UNCHANGED <<now, calls, rcv, del, scn, val, auth, lim>>
\* mfo.getEntry of the replyTo, likeOf or repostOf target answers (lines 163-168)
publishResolve(p) ==
    /\ pub[p].pc = "resolve"
    /\ \/ /\ failure
          /\ throwPub(p, "UpstreamFailure")
       \/ /\ pub' = [pub EXCEPT ![p].pc = afterResolve(pub[p].entry)]
          /\ UNCHANGED <<mutex, failures>>
    /\ UNCHANGED <<store, entries, now, calls, rcv, del, scn, val, auth, lim>>

\* path.join(path.dirname(slug), m.photo.filename)
mediaKey(e) == datepart(e.published) \o "/" \o e.photo

\* the put of the attached photo answers (lines 190-195)
publishPhoto(p) ==
    /\ pub[p].pc = "photo"
    /\ \/ /\ failure
          /\ throwPub(p, "StoreFailure")
          /\ UNCHANGED store
       \/ /\ store' = put(store, mediaKey(pub[p].entry),
                          [ContentType |-> "image/jpeg", kind |-> "media"])
          /\ pub' = [pub EXCEPT ![p].pc = afterPhoto(pub[p].entry)]
          /\ UNCHANGED <<mutex, failures>>
    /\ UNCHANGED <<entries, now, calls, rcv, del, scn, val, auth, lim>>

oembedStepFatal(rec, ok) ==
    LET links == getMentions(rec.entry)
        i == rec.i + 1
    IN [rec EXCEPT !.entry.embed = IF ok THEN Append(@, links[i]) ELSE @,
                   !.tried = Append(@, ok),
                   !.i = IF i < Len(links) /\ ok THEN i ELSE 0,
                   !.pc = IF i < Len(links) /\ ok THEN "oembed" ELSE "parse"]
\* one turn of the loop over entry.getMentions() (lines 202-211): the embed of a
\* lookup that answered is added, a lookup that failed is passed over
oembedStep(rec, ok) ==
    LET links == getMentions(rec.entry)
        i == rec.i + 1
    IN [rec EXCEPT !.entry.embed = IF ok THEN Append(@, links[i]) ELSE @,
                   !.tried = Append(@, ok),
                   !.i = IF i < Len(links) THEN i ELSE 0,
                   !.pc = IF i < Len(links) THEN "oembed" ELSE "parse"]

\* one oembed lookup answers or fails (line 204)
publishOembed(p) ==
    /\ pub[p].pc = "oembed"
    /\ \E ok \in BOOLEAN : pub' = [pub EXCEPT ![p] = oembedStep(pub[p], ok)]
    /\ UNCHANGED <<store, entries, mutex, now, calls, failures, rcv, del, scn, val, auth, lim>>

reparseSkipped(e) == e
\* the entry is rendered and parsed again to get all its properties (lines 214-215)
reparse(e) == getEntryFromHtml(renderEntry(e))

\* mfo.getEntryFromHtml answers (lines 214-215); update() renders and issues its put
publishParse(p) ==
    /\ pub[p].pc = "parse"
    /\ pub' = [pub EXCEPT ![p].entry = reparse(@), ![p].pc = "put"]
    /\ UNCHANGED <<store, entries, mutex, now, calls, failures, rcv, del, scn, val, auth, lim>>

\* update(): the put of the entry page answers (line 267); the index is set and
\* generateStreams() issues its puts from the index it finds (lines 268-270)
publishPut(p) ==
    /\ pub[p].pc = "put"
    /\ \/ /\ failure
          /\ throwPub(p, "StoreFailure")
          /\ UNCHANGED <<store, entries, rcv>>
       \/ LET e == pub[p].entry
              idx == mapSet(entries, e)
          IN /\ store' = put(store, getPath(e), renderEntry(e))
             /\ entries' = idx
             /\ pub' = [detachPub(pub, e.url, p) EXCEPT
                            ![p].pc = "gen", ![p].live = TRUE, ![p].puts = generateStreams(idx),
                            ![p].log = @ \o <<"put", "index">>]
             /\ rcv' = detachRcv(rcv, e.url, p)
             /\ UNCHANGED <<mutex, failures>>
    /\ UNCHANGED <<now, calls, del, scn, val, auth, lim>>

publishGenUnawaited(p) ==
    /\ pub[p].pc = "gen"
    /\ \E k \in 0 .. Len(pub[p].puts) :
        /\ store' = applyPuts(store, SubSeq(pub[p].puts, 1, k))
        /\ pub' = [pub EXCEPT ![p].puts = <<>>,
                              ![p].gens = @ + 1,
                              ![p].log = IF k = Len(pub[p].puts) THEN Append(@, "pages") ELSE @,
                              ![p].pc = IF ~pub[p].second /\ pub[p].entry.syndicateTo
                                        THEN "syndicate" ELSE "commit"]
        /\ UNCHANGED <<mutex, failures>>
    /\ UNCHANGED <<entries, now, calls, rcv, del, scn, val, auth, lim>>
\* generateStreams(): its puts answer, all of them or a failure after some (line 270);
\* back in publish, the syndication or the commit is issued (lines 217-222)
publishGen(p) ==
    /\ pub[p].pc = "gen"
    /\ \E k \in 0 .. Len(pub[p].puts) :
        /\ store' = applyPuts(store, SubSeq(pub[p].puts, 1, k))
        /\ IF k < Len(pub[p].puts)
           THEN /\ failure
                /\ throwPub(p, "StoreFailure")
           ELSE /\ pub' = [pub EXCEPT ![p].puts = <<>>,
                                      ![p].gens = @ + 1,
                                      ![p].log = Append(@, "pages"),
                                      ![p].pc = IF ~pub[p].second /\ pub[p].entry.syndicateTo
                                                THEN "syndicate" ELSE "commit"]
                /\ UNCHANGED <<mutex, failures>>
    /\ UNCHANGED <<entries, now, calls, rcv, del, scn, val, auth, lim>>

\* posse.syndicate answers (lines 218-220): the URLs are added to the entry object,
\* which the index holds too, and update() is called again
publishSyndicate(p) ==
    /\ pub[p].pc = "syndicate"
    /\ \/ /\ failure
          /\ throwPub(p, "SyndicationFailure")
          /\ UNCHANGED entries
       \/ LET e == [pub[p].entry EXCEPT !.syndication = @ \o <<"http://silo/1">>]
          IN /\ pub' = [pub EXCEPT ![p].entry = e, ![p].second = TRUE, ![p].pc = "put"]
             /\ entries' = IF pub[p].live /\ has(entries, e.url) THEN mapSet(entries, e) ELSE entries
             /\ UNCHANGED <<mutex, failures>>
    /\ UNCHANGED <<store, now, calls, rcv, del, scn, val, auth, lim>>

releaseOnSuccessMissing(mx, p) == mx
\* release() after the commit (line 224)
releaseOnSuccess(mx, p) == release(mx, p)

\* publisher.commit answers (line 222); release() and sendWebmentionsFor (lines 224-225)
publishCommit(p) ==
    /\ pub[p].pc = "commit"
    /\ \/ /\ failure
          /\ throwPub(p, "StoreFailure")
       \/ /\ pub' = [pub EXCEPT ![p] = [released(@, p) EXCEPT
                                            !.pc = "notify", !.committed = TRUE,
                                            !.log = @ \o <<"commit", "release", "notify">>]]
          /\ mutex' = releaseOnSuccess(mutex, p)
          /\ UNCHANGED failures
    /\ UNCHANGED <<store, entries, now, calls, rcv, del, scn, val, auth, lim>>

sendStepAbort(rec, ok) ==
    [rec EXCEPT !.sent = Append(@, ok),
                !.i = IF ok THEN @ + 1 ELSE Len(getMentions(rec.entry))]
\* sendWebmentionsFor, one link of entry.getMentions() (lines 416-423): the delivery
\* is over, sent or failed, and a failure is only logged
sendStep(rec, ok) == [rec EXCEPT !.sent = Append(@, ok), !.i = @ + 1]

\* util.sendWebmention(entry.url, link) answers or fails (line 418)
publishSend(p) ==
    /\ pub[p].pc = "notify"
    /\ pub[p].i < Len(getMentions(pub[p].entry))
    /\ \E ok \in BOOLEAN : pub' = [pub EXCEPT ![p] = sendStep(pub[p], ok)]
    /\ UNCHANGED <<store, entries, mutex, now, calls, failures, rcv, del, scn, val, auth, lim>>

\* sendWebmentionsFor is over (line 225); publish returns through its finally
\* block, which calls release() again (line 228)
publishNotified(p) ==
    /\ pub[p].pc = "notify"
    /\ pub[p].i >= Len(getMentions(pub[p].entry))
    /\ pub' = [pub EXCEPT ![p] = pubDone(released(pub[p], p))]
    /\ mutex' = release(mutex, p)
    /\ UNCHANGED <<store, entries, now, calls, failures, rcv, del, scn, val, auth, lim>>

(* ---------------------------------------------------------------------- *)
(* Site.delete                                                             *)
(* ---------------------------------------------------------------------- *)

\* the URLs a caller may name: those of the index and one that no entry has
KnownUrls == {entries[i].url : i \in DOMAIN entries}
NoSuchUrl == SiteUrl \o "/2024/3/2/nope"

delDone(rec) == [DelIdle EXCEPT !.pc = "done", !.url = rec.url]

delFailed(rec, err) ==
    [DelIdle EXCEPT !.pc = "failed", !.url = rec.url, !.at = rec.pc, !.err = err]

\* delete(url) is called: get(url) throws for an unknown URL, else publisher.delete
\* is issued (lines 275-276)
delete(d, u) ==
    /\ finished(del[d])
    /\ calls < MaxCalls
    /\ calls' = calls + 1
    /\ del' = [sweepDel(del) EXCEPT ![d] =
                 IF has(entries, u)
                 THEN [DelIdle EXCEPT !.pc = "delete", !.url = u, !.entry = mapGet(entries, u)]
                 ELSE delFailed([DelIdle EXCEPT !.pc = "get", !.url = u], "NotFound")]
    /\ pub' = sweepPub(pub)
    /\ rcv' = sweepRcv(rcv)
    /\ UNCHANGED <<store, entries, mutex, now, failures, scn, val, auth, lim>>

\* publisher.delete answers (line 276); the index drops the entry and
\* generateStreams() issues its puts (lines 277-279)
deleteDeleted(d) ==
    /\ del[d].pc = "delete"
    /\ \/ /\ failure
          /\ del' = [del EXCEPT ![d] = delFailed(del[d], "StoreFailure")]
          /\ UNCHANGED <<store, entries, pub, rcv>>
       \/ LET e == del[d].entry
              idx == mapDelete(entries, e.url)
          IN /\ store' = remove(store, getPath(e))
             /\ entries' = idx
             /\ del' = [del EXCEPT ![d].pc = "gen", ![d].puts = generateStreams(idx)]
             /\ pub' = detachPub(pub, e.url, None)
             /\ rcv' = detachRcv(rcv, e.url, None)
             /\ UNCHANGED failures
    /\ UNCHANGED <<mutex, now, calls, scn, val, auth, lim>>

\* generateStreams(): its puts answer, all of them or a failure after some (line 279)
deleteGen(d) ==
    /\ del[d].pc = "gen"
    /\ \E k \in 0 .. Len(del[d].puts) :
        /\ store' = applyPuts(store, SubSeq(del[d].puts, 1, k))
        /\ IF k < Len(del[d].puts)
           THEN /\ failure
                /\ del' = [del EXCEPT ![d] = delFailed(del[d], "StoreFailure")]
           ELSE /\ del' = [del EXCEPT ![d] = delDone(del[d])]
                /\ UNCHANGED failures
    /\ UNCHANGED <<entries, mutex, now, calls, pub, rcv, scn, val, auth, lim>>

(* ---------------------------------------------------------------------- *)
(* Site.receiveWebmention                                                  *)
(* ---------------------------------------------------------------------- *)

\* what mfo.getEntry(sourceUrl) can give for a webmention of target: no entry, or
\* an entry with some links
Fetches(target) ==
    {[ok |-> FALSE, links |-> {}]}
    \cup {[ok |-> TRUE, links |-> L] :
            L \in {{}, {target}, {target \o "x"}, {"http://example.com", target \o "1"}}}

mentionsSubstring(fetched, targetUrl) ==
    \E m \in fetched.links : \E tail \in UrlTails : m = targetUrl \o tail
\* sourceEntry.getMentions().some(m => m === targetUrl)
mentions(fetched, targetUrl) == \E m \in fetched.links : m = targetUrl

\* targetEntry.addChild(sourceEntry)
addChild(e, sourceUrl) ==
    [e EXCEPT !.children = Append(SelectSeq(@, LAMBDA c : c # sourceUrl), sourceUrl)]

\* handleError(res, error) of the API server: res.sendStatus(500)
handleError(error) == 500

\* receiveWebmention resolved: the /webmention handler answers res.sendStatus(200)
rcvDone(rec) ==
    [RcvIdle EXCEPT !.pc = "done", !.source = rec.source, !.status = 200,
                    !.target = rec.target, !.fetched = rec.fetched,
                    !.targetEntry = rec.targetEntry, !.before = rec.before,
                    !.gens = rec.gens, !.committed = rec.committed]

\* receiveWebmention rejected: the /webmention handler calls handleError
rcvFailed(rec, err) ==
    [RcvIdle EXCEPT !.pc = "failed", !.source = rec.source, !.status = handleError(err),
                    !.target = rec.target, !.fetched = rec.fetched,
                    !.targetEntry = rec.targetEntry, !.before = rec.before,
                    !.at = rec.pc, !.err = err,
                    !.gens = rec.gens, !.committed = rec.committed]

\* an exception leaves receiveWebmention through its finally block (line 450),
\* which calls release() on the lock mx it holds
throwRcv(r, mx, rec, err) ==
    /\ rcv' = [rcv EXCEPT ![r] = rcvFailed(rec, err)]
    /\ mutex' = release(mx, r)

\* POST /webmention: without a source or a target the handler answers 400; else
\* receiveWebmention(sourceUrl, targetUrl) is called and asks for the lock (line 428)
receiveWebmention(r, sourceUrl, targetUrl) ==
    /\ finished(rcv[r])
    /\ calls < MaxCalls
    /\ calls' = calls + 1
    /\ pub' = sweepPub(pub)
    /\ del' = sweepDel(del)
    /\ IF sourceUrl = Undefined \/ targetUrl = Undefined
       THEN /\ rcv' = [sweepRcv(rcv) EXCEPT ![r] = [RcvIdle EXCEPT !.pc = "refused",
                                                                  !.source = sourceUrl,
                                                                  !.target = targetUrl,
                                                                  !.status = 400]]
            /\ UNCHANGED mutex
       ELSE /\ rcv' = [sweepRcv(rcv) EXCEPT ![r] = [RcvIdle EXCEPT !.pc = "lock",
                                                                  !.source = sourceUrl,
                                                                  !.target = targetUrl]]
            /\ mutex' = lock(mutex, r)
    /\ UNCHANGED <<store, entries, now, failures, scn, val, auth, lim>>

receiveAwaitLockMissing(r) == TRUE
\* var release = await this.mutex.lock() (line 428)
receiveAwaitLock(r) == granted(mutex, r)

\* the lock is granted: the target is looked up; mfo.getEntry(sourceUrl) is issued
\* (lines 429-435)
receiveLocked(r) ==
    /\ rcv[r].pc = "lock"
    /\ receiveAwaitLock(r)
    /\ LET rec == [rcv[r] EXCEPT !.before = [store |-> store, entries |-> entries]]
       IN IF has(entries, rec.target)
          THEN /\ rcv' = [rcv EXCEPT ![r] = [rec EXCEPT !.pc = "fetch",
                                                        !.targetEntry = mapGet(entries, rec.target),
                                                        !.live = TRUE]]
               /\ mutex' = take(mutex, r)
          ELSE throwRcv(r, take(mutex, r), [rec EXCEPT !.pc = "get"],
                        "BadRequest: Target not found")
    /\ UNCHANGED <<store, entries, now, calls, failures, pub, del, scn, val, auth, lim>>

\* mfo.getEntry(sourceUrl) answers (lines 434-444): the source is checked for a link
\* to the target; the child is added to the target object, which the index holds,
\* and the put of the target page is issued
receiveFetched(r) ==
    /\ rcv[r].pc = "fetch"
    /\ \E f \in Fetches(rcv[r].target) :
        LET rec == [rcv[r] EXCEPT !.fetched = f]
        IN IF ~f.ok
           THEN /\ throwRcv(r, mutex, rec, "BadRequest: Source not found")
                /\ UNCHANGED entries
           ELSE IF ~mentions(f, rec.target)
           THEN /\ throwRcv(r, mutex, rec, "BadRequest: Link to target not found")
                /\ UNCHANGED entries
           ELSE LET t == addChild(rec.targetEntry, rec.source)
                IN /\ rcv' = [rcv EXCEPT ![r] = [rec EXCEPT !.targetEntry = t, !.pc = "put"]]
                   /\ entries' = IF rec.live /\ has(entries, t.url)
                                 THEN mapSet(entries, t) ELSE entries
                   /\ UNCHANGED mutex
    /\ UNCHANGED <<store, now, calls, failures, pub, del, scn, val, auth, lim>>

\* the put of the target page answers (line 444); the commit is issued (line 445)
receivePut(r) ==
    /\ rcv[r].pc = "put"
    /\ \/ /\ failure
          /\ throwRcv(r, mutex, rcv[r], "StoreFailure")
          /\ UNCHANGED store
       \/ /\ store' = put(store, getPath(rcv[r].targetEntry), renderEntry(rcv[r].targetEntry))
          /\ rcv' = [rcv EXCEPT ![r].pc = "commit"]
          /\ UNCHANGED <<mutex, failures>>
    /\ UNCHANGED <<entries, now, calls, pub, del, scn, val, auth, lim>>

\* publisher.commit answers (line 445); the finally block releases the lock
receiveCommit(r) ==
    /\ rcv[r].pc = "commit"
    /\ \/ /\ failure
          /\ throwRcv(r, mutex, rcv[r], "StoreFailure")
       \/ /\ rcv' = [rcv EXCEPT ![r] = rcvDone([rcv[r] EXCEPT !.committed = TRUE])]
          /\ mutex' = release(mutex, r)
          /\ UNCHANGED failures
    /\ UNCHANGED <<store, entries, now, calls, pub, del, scn, val, auth, lim>>

(* ---------------------------------------------------------------------- *)
(* Site.scan and the readers of the index                                  *)
(* ---------------------------------------------------------------------- *)

\* the alternatives of the regular expression of scan (line 246)
ReservedPrefixes == {"index", "js", "css", "tags", "articles", "replies"}

startsWith(s, pre) == Len(s) >= Len(pre) /\ SubSeq(s, 1, Len(pre)) = pre

reTestNever(k) == FALSE
\* re.test(k) for re = /^(index|js|css|tags|articles|replies)/
reTest(k) == \E pre \in ReservedPrefixes : startsWith(k, pre)

\* url.resolve(this.config.url, key), for a site URL without a path
resolve(base, key) == IF startsWith(key, "/") THEN base \o key ELSE base \o "/" \o key

\* mfo.getEntryFromHtml(obj.Body, u) gives an entry for a page that holds one
\* h-entry, the page of an entry or a list page of one entry, and throws otherwise
parses(doc) ==
    \/ isEntryDoc(doc)
    \/ doc.ContentType = "text/html" /\ doc.kind \notin {"entry", "page"} /\ Len(doc.urls) = 1

parsed(doc) ==
    IF isEntryDoc(doc) THEN getEntryFromHtml(doc) ELSE [NoEntry EXCEPT !.url = doc.urls[1]]

admitsAny(entryUrl, u) == TRUE
\* entry.url === u || entry.url + '.html' === u (line 255)
admits(entryUrl, u) == entryUrl = u \/ entryUrl \o ".html" = u

\* the callback of scan for one key, on the object publisher.get gave (lines 250-259)
scanObject(local, key, obj) ==
    IF obj.ContentType = "text/html"
    THEN LET u == resolve(SiteUrl, key)
         IN IF parses(obj) /\ admits(parsed(obj).url, u)
            THEN mapSet(local, parsed(obj))
            ELSE local
    ELSE local

scanFailed(rec, err) == [rec EXCEPT !.pc = "failed", !.err = err, !.keys = {}]

\* scan() is called: publisher.list() is issued (line 244)
scan ==
    /\ finished(scn)
    /\ calls < MaxCalls
    /\ calls' = calls + 1
    /\ scn' = [ScanIdle EXCEPT !.pc = "list", !.before = entries]
    /\ UNCHANGED <<store, entries, mutex, now, failures, pub, rcv, del, val, auth, lim>>

\* publisher.list() answers (line 244): the keys are filtered and a publisher.get
\* is issued for every key left (lines 245-249)
scanListed ==
    /\ scn.pc = "list"
    /\ \/ /\ failure
          /\ scn' = scanFailed(scn, "StoreFailure")
       \/ /\ scn' = [scn EXCEPT !.pc = "get", !.keys = {k \in DOMAIN store : ~reTest(k)}]
          /\ UNCHANGED failures
    /\ UNCHANGED <<store, entries, mutex, now, calls, pub, rcv, del, val, auth, lim>>

scanGetInPlace(key) ==
    /\ scn.pc = "get"
    /\ key \in scn.keys
    /\ \/ /\ failure
          /\ scn' = scanFailed(scn, "StoreFailure")
          /\ UNCHANGED entries
       \/ /\ exists(store, key)
          /\ scn' = [scn EXCEPT !.keys = @ \ {key}]
          /\ entries' = scanObject(entries, key, store[key])
          /\ UNCHANGED failures
    /\ UNCHANGED <<store, mutex, now, calls, pub, rcv, del, val, auth, lim>>
\* one publisher.get of the Promise.all answers, in any order (lines 248-260); a get
\* that fails rejects the Promise.all, and scan with it
scanGet(key) ==
    /\ scn.pc = "get"
    /\ key \in scn.keys
    /\ \/ /\ failure
          /\ scn' = scanFailed(scn, "StoreFailure")
       \/ /\ exists(store, key)
          /\ scn' = [scn EXCEPT !.keys = @ \ {key},
                                !.entries = scanObject(@, key, store[key])]
          /\ UNCHANGED failures
    /\ UNCHANGED <<store, entries, mutex, now, calls, pub, rcv, del, val, auth, lim>>

\* every callback is over: this.entries = entries (line 262)
scanDone ==
    /\ scn.pc = "get"
    /\ scn.keys = {}
    /\ entries' = scn.entries
    /\ scn' = [scn EXCEPT !.pc = "done"]
    /\ UNCHANGED <<store, mutex, now, calls, failures, pub, rcv, del, val, auth, lim>>

\* getAll() (lines 239-241): a reader takes the index as it is, at any time
getAll ==
    /\ scn.seen # [at |-> scn.pc, index |-> entries]
    /\ scn' = [scn EXCEPT !.seen = [at |-> scn.pc, index |-> entries]]
    /\ UNCHANGED <<store, entries, mutex, now, calls, failures, pub, rcv, del, val, auth, lim>>

(* ---------------------------------------------------------------------- *)
(* validate                                                                *)
(* ---------------------------------------------------------------------- *)

\* the catch of one turn of the loop (lines 406-409): debug('fail ' + expected.url)
\* throws a TypeError while expected is undefined, and validate() rejects; otherwise
\* {key, expected, actual} is pushed with the values the variables hold
validateCatch(rec, key) ==
    IF rec.expected = NoEntry
    THEN [rec EXCEPT !.pc = "failed", !.err = "TypeError", !.keys = {}]
    ELSE [rec EXCEPT !.keys = @ \ {key},
                     !.failures = Append(@, [key |-> key, expected |-> rec.expected,
                                             actual |-> rec.actual])]

\* the try of one turn of the loop on the object publisher.get gave (lines 392-405):
\* a parse that throws leaves expected as it was (line 398); assert.deepEqual
\* throws when the entry parsed again differs
validateObject(rec, key, obj) ==
    IF obj.ContentType = "text/html"
    THEN LET u == resolve(SiteUrl, key)
             expected == IF parses(obj) THEN parsed(obj) ELSE rec.expected
             parsedOnce == [rec EXCEPT !.expected = expected]
         IN IF parses(obj) /\ admits(expected.url, u)
            THEN LET actual == getEntryFromHtml(renderEntry(expected))
                     parsedTwice == [parsedOnce EXCEPT !.actual = actual]
                 IN IF actual = expected
                    THEN [parsedTwice EXCEPT !.keys = @ \ {key}]
                    ELSE validateCatch(parsedTwice, key)
            ELSE [parsedOnce EXCEPT !.keys = @ \ {key}]
    ELSE [rec EXCEPT !.keys = @ \ {key}]

\* validate() is called: publisher.list() is issued (line 388)
validate ==
    /\ finished(val)
    /\ calls < MaxCalls
    /\ calls' = calls + 1
    /\ val' = [ValIdle EXCEPT !.pc = "list"]
    /\ UNCHANGED <<store, entries, mutex, now, failures, pub, rcv, del, scn, auth, lim>>

\* publisher.list() answers (line 388), outside the try: a failure rejects validate()
validateListed ==
    /\ val.pc = "list"
    /\ \/ /\ failure
          /\ val' = [val EXCEPT !.pc = "failed", !.err = "StoreFailure"]
       \/ /\ val' = [val EXCEPT !.pc = "get", !.keys = DOMAIN store]
          /\ UNCHANGED failures
    /\ UNCHANGED <<store, entries, mutex, now, calls, pub, rcv, del, scn, auth, lim>>

\* one turn of the loop (lines 389-410), the keys taken in the order of the list,
\* which is any order: publisher.get(key) answers with the object or fails, and a
\* failure goes to the catch of the turn
validateKey(key) ==
    /\ val.pc = "get"
    /\ key \in val.keys
    /\ \/ /\ failure
          /\ val' = validateCatch(val, key)
       \/ /\ exists(store, key)
          /\ val' = validateObject(val, key, store[key])
          /\ UNCHANGED failures
    /\ UNCHANGED <<store, entries, mutex, now, calls, pub, rcv, del, scn, auth, lim>>

\* the loop is over: the failures are returned (lines 411-412)
validateDone ==
    /\ val.pc = "get"
    /\ val.keys = {}
    /\ val' = [val EXCEPT !.pc = "done"]
    /\ UNCHANGED <<store, entries, mutex, now, calls, failures, pub, rcv, del, scn, auth, lim>>

(* ---------------------------------------------------------------------- *)
(* The authorization endpoints of apiserver.ts                             *)
(* ---------------------------------------------------------------------- *)

\* the codes POST /auth can issue, and the requests for a token that are accepted
MaxCodes == 2
MaxRedeems == 3
\* the clock of the endpoints, in milliseconds
MaxAuthTime == 120000

\* the times that pass between two requests
Delays == {20000, 59999}

\* a code is good for less than 60 * 1000 ms (line 139)
CodeLifetime == 60 * 1000

\* site.config.password, and the passwords a form can carry
ConfigPassword == "secret"
Passwords == {"secret", "guess"}

\* what site.generateToken(client_id, scope) can settle with
TokenOutcomes == {"token", "undefined", "rejected"}

\* time passes
authTick(d) ==
    /\ auth.clock + d <= MaxAuthTime
    /\ auth' = [auth EXCEPT !.clock = @ + d]
    /\ UNCHANGED <<store, entries, mutex, now, calls, failures, pub, rcv, del, scn, val, lim>>

\* POST /auth (lines 113-134): with the right password crypto.randomBytes gives a
\* fresh code, which replaces lastIssuedCode, or fails; a wrong password gets 401
postAuth(password) ==
    /\ IF password = ConfigPassword
       THEN \/ /\ auth.issued < MaxCodes
               /\ auth' = [auth EXCEPT !.issued = @ + 1,
                                       !.lastIssuedCode = [null |-> FALSE,
                                                           code |-> auth.issued + 1,
                                                           date |-> auth.clock],
                                       !.status = 302]
            \/ auth' = [auth EXCEPT !.status = handleError("randomBytes")]
       ELSE auth' = [auth EXCEPT !.status = 401]
    /\ UNCHANGED <<store, entries, mutex, now, calls, failures, pub, rcv, del, scn, val, lim>>

\* the condition of POST /token (lines 137-139)
codeValid(code) ==
    /\ ~auth.lastIssuedCode.null
    /\ auth.lastIssuedCode.code = code
    /\ auth.clock - auth.lastIssuedCode.date < CodeLifetime

\* POST /token (lines 136-157) with a code: a valid code calls site.generateToken,
\* whose promise is pending when the handler returns; any other code gets 401
postToken(t, code) ==
    /\ auth.tok[t].pc \in {"idle", "done"}
    /\ Len(auth.invoked) < MaxRedeems
    /\ IF codeValid(code)
       THEN auth' = [auth EXCEPT !.tok[t] = [pc |-> "gen", code |-> code, status |-> 0],
                                 !.invoked = Append(@, code),
                                 !.stale = IF code \in auth.redeemed THEN @ \cup {code} ELSE @]
       ELSE auth' = [auth EXCEPT !.tok[t] = [pc |-> "done", code |-> code, status |-> 401]]
    /\ UNCHANGED <<store, entries, mutex, now, calls, failures, pub, rcv, del, scn, val, lim>>

\* the promise of site.generateToken settles (lines 141-152): .then sets
\* lastIssuedCode to null, whatever it holds by then, and answers the token, or 500
\* for an undefined result; a rejection goes to handleError and leaves lastIssuedCode
tokenGenerated(t, outcome) ==
    /\ auth.tok[t].pc = "gen"
    /\ auth' = CASE outcome = "token" ->
                      [auth EXCEPT !.lastIssuedCode = NoCode,
                                   !.redeemed = @ \cup {auth.tok[t].code},
                                   !.tok[t].pc = "done", !.tok[t].status = 200]
                 [] outcome = "undefined" ->
                      [auth EXCEPT !.lastIssuedCode = NoCode,
                                   !.tok[t].pc = "done", !.tok[t].status = 500]
                 [] OTHER ->
                      [auth EXCEPT !.tok[t].pc = "done",
                                   !.tok[t].status = handleError("generateToken")]
    /\ UNCHANGED <<store, entries, mutex, now, calls, failures, pub, rcv, del, scn, val, lim>>

(* ---------------------------------------------------------------------- *)
(* rateLimit of apiserver.ts                                               *)
(* ---------------------------------------------------------------------- *)

\* the requests sent to the limiter, and its clock in milliseconds
MaxRequests == 6
MaxLimitTime == 60000

\* the times that pass between two requests
LimitDelays == {10000, 20000}

\* time passes
limitTick(d) ==
    /\ lim.clock + d <= MaxLimitTime
    /\ lim' = [lim EXCEPT !.clock = @ + d]
    /\ UNCHANGED <<store, entries, mutex, now, calls, failures, pub, rcv, del, scn, val, auth>>

\* line 82: Math.min(capacity + (new Date() - lastreq) * (count / cooldown), count),
\* times cooldown
refilled(l) == Min(l.capacity + (l.clock - l.lastreq) * count, count * cooldown)

\* a request reaches the middleware (lines 81-90): capacity is refilled for the time
\* since lastreq; with capacity >= 1 the request is admitted, capacity-- and lastreq
\* = new Date(); otherwise it is answered 429, and lastreq stays
rateLimit ==
    /\ lim.admitted + lim.rejected < MaxRequests
    /\ LET capacity == refilled(lim)
       IN IF capacity >= cooldown
          THEN lim' = [lim EXCEPT !.capacity = capacity - cooldown,
                                  !.lastreq = lim.clock,
                                  !.admitted = @ + 1]
          ELSE lim' = [lim EXCEPT !.capacity = capacity,
                                  !.rejected = @ + 1]
    /\ UNCHANGED <<store, entries, mutex, now, calls, failures, pub, rcv, del, scn, val, auth>>

(* ---------------------------------------------------------------------- *)
(* Specifications                                                          *)
(* ---------------------------------------------------------------------- *)

\* the submissions of the concurrent specification
FewSubmissions ==
    {sub("Hello", "Hi", "replyTo", <<"x">>, FALSE, Undefined),
     sub("Hello", "Hi <http://example.com>", "none", <<>>, TRUE, "pic.jpg")}

\* calls overlap: every call runs in its own slot, and its steps interleave with
\* the steps of the others
Next ==
    \/ \E p \in PubProcs, m \in FewSubmissions : publish(p, m)
    \/ \E p \in PubProcs : publishLocked(p)
    \/ \E p \in PubProcs : publishExists(p)
    \/ \E p \in PubProcs : publishResolve(p)
    \/ \E p \in PubProcs : publishPhoto(p)
    \/ \E p \in PubProcs : publishOembed(p)
    \/ \E p \in PubProcs : publishParse(p)
    \/ \E p \in PubProcs : publishPut(p)
    \/ \E p \in PubProcs : publishGen(p)
    \/ \E p \in PubProcs : publishSyndicate(p)
    \/ \E p \in PubProcs : publishCommit(p)
    \/ \E p \in PubProcs : publishSend(p)
    \/ \E p \in PubProcs : publishNotified(p)
    \/ \E d \in DelProcs, u \in KnownUrls \cup {NoSuchUrl} : delete(d, u)
    \/ \E d \in DelProcs : deleteDeleted(d)
    \/ \E d \in DelProcs : deleteGen(d)
    \/ \E r \in RecvProcs, s \in SourceUrls, t \in KnownUrls \cup {NoSuchUrl} :
          receiveWebmention(r, s, t)
    \/ \E r \in RecvProcs : receiveLocked(r)
    \/ \E r \in RecvProcs : receiveFetched(r)
    \/ \E r \in RecvProcs : receivePut(r)
    \/ \E r \in RecvProcs : receiveCommit(r)

Spec == Init /\ [][Next]_vars

\* the steps of one publish, of one receive: the answers of what they await
pubStep(p) ==
    \/ publishLocked(p) \/ publishExists(p) \/ publishResolve(p) \/ publishPhoto(p)
    \/ publishOembed(p) \/ publishParse(p) \/ publishPut(p) \/ publishGen(p)
    \/ publishSyndicate(p) \/ publishCommit(p) \/ publishSend(p) \/ publishNotified(p)

rcvStep(r) == receiveLocked(r) \/ receiveFetched(r) \/ receivePut(r) \/ receiveCommit(r)

\* the submission of the calls that contend for the lock: it takes every step of
\* publish (reply target, photo, oembed, syndication, webmentions)
LiveSubmissions == {sub("Hello", "Hi <http://example.com>", "replyTo", <<>>, TRUE, "pic.jpg")}

\* overlapping publishes and receives
NextLive ==
    \/ \E p \in PubProcs, m \in LiveSubmissions : publish(p, m)
    \/ \E p \in PubProcs : pubStep(p)
    \/ \E r \in RecvProcs, s \in SourceUrls, t \in KnownUrls \cup {NoSuchUrl} :
          receiveWebmention(r, s, t)
    \/ \E r \in RecvProcs : rcvStep(r)

\* every promise a call awaits is settled in the end, with an answer or a failure
SpecLive ==
    /\ Init /\ [][NextLive]_vars
    /\ \A p \in PubProcs : WF_vars(pubStep(p))
    /\ \A r \in RecvProcs : WF_vars(rcvStep(r))

\* calls follow one another: a call starts when no other is in progress
NextSeq ==
    \/ \E m \in Submissions : Quiet /\ publish("p1", m)
    \/ publishLocked("p1")
    \/ publishExists("p1")
    \/ publishResolve("p1")
    \/ publishPhoto("p1")
    \/ publishOembed("p1")
    \/ publishParse("p1")
    \/ publishPut("p1")
    \/ publishGen("p1")
    \/ publishSyndicate("p1")
    \/ publishCommit("p1")
    \/ publishSend("p1")
    \/ publishNotified("p1")
    \/ \E u \in KnownUrls \cup {NoSuchUrl} : Quiet /\ delete("d1", u)
    \/ deleteDeleted("d1")
    \/ deleteGen("d1")
    \/ \E s \in SourceUrls \cup {Undefined}, t \in KnownUrls \cup {NoSuchUrl} :
          Quiet /\ receiveWebmention("r1", s, t)
    \/ receiveLocked("r1")
    \/ receiveFetched("r1")
    \/ receivePut("r1")
    \/ receiveCommit("r1")

SpecSeq == Init /\ [][NextSeq]_vars

\* an entry as a scan finds it in a page of the store
scanEntry(path, nm, content) ==
    [buildEntry(sub(nm, content, "none", <<>>, FALSE, Undefined), 0) EXCEPT
        !.url = SiteUrl \o path, !.path = path]

\* the objects a store can hold when a scan starts: pages of entries under their
\* own path, under their path with .html, under another path and under a
\* reserved prefix, a page of an entry that is not HTML, derived pages, a page
\* that is no entry, and attached media
ScanObjects ==
    LET hello == scanEntry("/2024/3/2/hello", "Hello", "Hi")
        one == scanEntry("/2024/3/2/1", Undefined, "Hi <p-summary>")
        indexed == scanEntry("/indexed", "Hello", "Hi")
    IN {[key |-> "/2024/3/2/hello", doc |-> renderEntry(hello)],
        [key |-> "/2024/3/2/1.html", doc |-> renderEntry(one)],
        [key |-> "/2024/3/2/copy", doc |-> renderEntry(hello)],
        [key |-> "indexed", doc |-> renderEntry(indexed)],
        [key |-> "/2024/3/2/text",
         doc |-> [renderEntry(scanEntry("/2024/3/2/text", "Hello", "Hi")) EXCEPT
                    !.ContentType = "text/plain"]],
        [key |-> "index", doc |-> generateStream(<<hello>>, 1, 1).doc],
        [key |-> "/tags/x", doc |-> generateIndex(<<hello>>, "x", "/tags/x").doc],
        [key |-> "about", doc |-> [ContentType |-> "text/html", kind |-> "page"]],
        [key |-> "/2024/3/2/pic.jpg", doc |-> [ContentType |-> "image/jpeg", kind |-> "media"]]}

ScanStores ==
    {[k \in {o.key : o \in os} |-> (CHOOSE o \in os : o.key = k).doc] :
        os \in {x \in SUBSET ScanObjects : Cardinality(x) \in 1 .. MaxObjects}}

\* the index a scan finds: empty, as at start-up, or with an entry whose page the
\* store no longer has
ScanIndexes == {<<>>, <<scanEntry("/2024/3/2/gone", "Hello", "Hi")>>}

InitScan ==
    /\ lim = LimitIdle
    /\ val = ValIdle
    /\ auth = AuthIdle
    /\ store \in ScanStores
    /\ entries \in ScanIndexes
    /\ scn = ScanIdle
    /\ mutex = [holder |-> None, queue |-> <<>>]
    /\ now = 0
    /\ calls = 0
    /\ failures = 0
    /\ pub = [p \in PubProcs |-> PubIdle]
    /\ rcv = [r \in RecvProcs |-> RcvIdle]
    /\ del = [d \in DelProcs |-> DelIdle]

\* scans of a store nothing else writes to, and readers of the index
NextScan ==
    \/ scan
    \/ scanListed
    \/ \E key \in DOMAIN store : scanGet(key)
    \/ scanDone
    \/ getAll

SpecScan == InitScan /\ [][NextScan]_vars

\* validate() over a store nothing else writes to
NextValidate ==
    \/ validate
    \/ validateListed
    \/ \E key \in DOMAIN store : validateKey(key)
    \/ validateDone

SpecValidate == InitScan /\ [][NextValidate]_vars

\* a scan that overlaps the other calls
NextOverlap ==
    \/ Next
    \/ scan
    \/ scanListed
    \/ \E key \in DOMAIN store : scanGet(key)
    \/ scanDone

SpecOverlap == Init /\ [][NextOverlap]_vars

\* the requests of the authorization endpoints, in any order
NextAuth ==
    \/ \E d \in Delays : authTick(d)
    \/ \E password \in Passwords : postAuth(password)
    \/ \E t \in TokProcs, code \in 1 .. MaxCodes : postToken(t, code)
    \/ \E t \in TokProcs, outcome \in TokenOutcomes : tokenGenerated(t, outcome)

SpecAuth == Init /\ [][NextAuth]_vars

\* requests to one limiter as time passes
NextLimit ==
    \/ \E d \in LimitDelays : limitTick(d)
    \/ rateLimit

SpecLimit == Init /\ [][NextLimit]_vars

(* ---------------------------------------------------------------------- *)
(* Properties                                                              *)
(* ---------------------------------------------------------------------- *)

\* a publish is between the grant of the lock and the answer of its commit
inPublish(p) ==
    pub[p].pc \in {"exists", "resolve", "photo", "oembed", "parse", "put", "gen",
                   "syndicate", "commit"}

\* C1: two publish calls never interleave their store writes: a publish that is
\* between its lock and its commit holds the mutex, so no other publish is there
\* with it, and a publish whose entry is in the index finds every other publish
\* before its lock or after its commit, also while one is still sending webmentions
C1_PublishesSerialized ==
    \A p \in PubProcs :
        inPublish(p) =>
            /\ mutex.holder = p
            /\ \A q \in PubProcs \ {p} :
                /\ ~inPublish(q)
                /\ pub[q].pc = "notify" => pub[q].committed

\* C1: a publish writes its pages while an earlier one is still sending webmentions
C1_Witness ==
    \E p \in PubProcs, q \in PubProcs :
        p # q /\ pub[p].pc = "notify" /\ pub[q].pc = "gen" /\ Len(entries) = 2

\* the documents of a store that are not attached media
documents(st) == [k \in {x \in DOMAIN st : st[x].kind # "media"} |-> st[k]]

\* C2: a publish that failed leaves the index and the entry and derived documents
\* of the store as they were when it was called
C2_FailedPublishLeavesNoTrace ==
    \A p \in PubProcs :
        pub[p].pc = "failed" =>
            /\ entries = pub[p].before.entries
            /\ documents(store) = documents(pub[p].before.store)

\* C3: a receive ends with "target not found" when the index has no entry at the
\* target, else with "source not found" when the source gave no entry, else with
\* "link not found" when no link of the source equals the target; only otherwise
\* is the source grafted
C3_ReceiveRejections ==
    \A r \in RecvProcs :
        rcv[r].pc \in {"done", "failed"} =>
            IF ~has(rcv[r].before.entries, rcv[r].target)
            THEN rcv[r].err = "BadRequest: Target not found" /\ rcv[r].fetched = NoFetch
            ELSE IF ~rcv[r].fetched.ok
            THEN rcv[r].err = "BadRequest: Source not found"
            ELSE IF rcv[r].target \notin rcv[r].fetched.links
            THEN rcv[r].err = "BadRequest: Link to target not found"
            ELSE /\ rcv[r].err \in {"", "StoreFailure"}
                 /\ rcv[r].source \in Range(rcv[r].targetEntry.children)

\* C3: a source is rejected whose only link extends the target URL
C3_Witness ==
    \E r \in RecvProcs :
        /\ rcv[r].pc = "failed"
        /\ rcv[r].err = "BadRequest: Link to target not found"
        /\ rcv[r].fetched.links = {rcv[r].target \o "x"}

\* C4: a receive that succeeded has run generateStreams and then committed
C4_ReceiveRegenerates ==
    \A r \in RecvProcs :
        rcv[r].pc = "done" => rcv[r].gens > 0 /\ rcv[r].committed

\* C5: a receive that failed leaves the index as it was, and the children of the
\* target in the index are those of its stored document
C5_FailedReceiveLeavesIndex ==
    \A r \in RecvProcs :
        rcv[r].pc = "failed" =>
            /\ entries = rcv[r].before.entries
            /\ \A i \in DOMAIN entries :
                  entries[i].url = rcv[r].target /\ exists(store, getPath(entries[i])) =>
                      store[getPath(entries[i])].mf.children = entries[i].children

\* the puts a regeneration in progress has issued
regenerations ==
    {pub[p].puts : p \in {q \in PubProcs : pub[q].pc = "gen"}}
    \cup {del[d].puts : d \in {q \in DelProcs : del[q].pc = "gen"}}

isHidden(e) == "hidden" \in Range(e.category)

\* C6: no page of the main stream, the reply stream or a tag that a regeneration
\* writes lists a hidden entry, and the index still has the entry
C6_HiddenExcluded ==
    \A puts \in regenerations : \A i \in DOMAIN puts : \A j \in DOMAIN entries :
        isHidden(entries[j]) /\ puts[i].key # "/articles" =>
            /\ entries[j].url \notin Range(puts[i].doc.urls)
            /\ has(entries, entries[j].url)

\* the derived pages of the store
pages(st) == {k \in DOMAIN st : st[k].kind \notin {"entry", "media"}}

\* C7: once a delete and its regeneration are over, no derived page of the store
\* lists the deleted entry
C7_DeleteLeavesNoStalePage ==
    \A d \in DelProcs :
        del[d].pc = "done" =>
            \A k \in pages(store) : del[d].url \notin Range(store[k].urls)

\* the stream pages among the puts of a regeneration, in the order they are issued
streamPuts(puts) == SelectSeq(puts, LAMBDA w : w.doc.kind = "stream")

\* the publication time of the entry at a URL
publishedAt(u) == mapGet(entries, u).published

\* the entries of the index that belong in the main stream
mainEntries ==
    {entries[i].url : i \in {j \in DOMAIN entries :
        /\ ~isHidden(entries[j])
        /\ entries[j].ref \notin {"replyTo", "likeOf"}}}

\* C8: the stream pages a regeneration writes are pages 1..N at index, index2, ...;
\* each lists between one and entriesPerPage entries; together they list the
\* entries of the index that are not hidden, replies or likes, each once, newest first
C8_PaginationCoverage ==
    \A puts \in regenerations :
        LET sp == streamPuts(puts)
            all == flatten([i \in DOMAIN sp |-> sp[i].doc.urls])
        IN /\ \A i \in DOMAIN sp :
                /\ sp[i].key = (IF i = 1 THEN "index" ELSE "index" \o ToString(i))
                /\ sp[i].doc.page = i
                /\ sp[i].doc.total = Len(sp)
                /\ Len(sp[i].doc.urls) \in 1 .. entriesPerPage
                /\ i < Len(sp) => Len(sp[i].doc.urls) = entriesPerPage
           /\ Range(all) = mainEntries
           /\ Len(all) = Cardinality(mainEntries)
           /\ \A i \in DOMAIN all : \A j \in DOMAIN all :
                i < j => publishedAt(all[i]) >= publishedAt(all[j])

\* C8: a regeneration writes two stream pages, the newer entry on the first
C8_Witness ==
    \E puts \in regenerations :
        LET sp == streamPuts(puts)
        IN /\ Len(sp) >= 2
           /\ publishedAt(sp[1].doc.urls[1]) > publishedAt(sp[2].doc.urls[1])

\* a publish has its slug and has not yet written its entry page
allocated(p) ==
    \/ pub[p].pc \in {"resolve", "photo", "oembed", "parse"}
    \/ pub[p].pc = "put" /\ ~pub[p].second

\* C9: the slug a publish has been given is a key the store did not hold when
\* exists answered, and until the entry page is written there the store holds at
\* most the publish's own attached media at it; so it is the path of no entry
\* published before and still stored
C9_SlugsDistinct ==
    \A p \in PubProcs :
        allocated(p) =>
            /\ exists(store, getPath(pub[p].entry)) =>
                  /\ store[getPath(pub[p].entry)].kind = "media"
                  /\ pub[p].entry.photo # Undefined
                  /\ getPath(pub[p].entry) = mediaKey(pub[p].entry)
                  /\ pub[p].pc # "resolve"
            /\ \A i \in DOMAIN entries :
                  exists(store, getPath(entries[i])) => entries[i].url # pub[p].entry.url

\* C9: a publish has its slug while the index holds an entry of the same name
\* and day
C9_Witness ==
    \E p \in PubProcs : \E i \in DOMAIN entries :
        /\ allocated(p)
        /\ pub[p].m.name # Undefined
        /\ entries[i].name = pub[p].entry.name
        /\ datepart(entries[i].published) = datepart(pub[p].entry.published)
        /\ exists(store, getPath(entries[i]))

\* the k-th candidate of a named slug as the claim has it: no suffix, then -2, -3, ...
dashedCandidate(prefix, k) == IF k = 1 THEN prefix ELSE prefix \o "-" \o ToString(k)

\* the k-th candidate of a named slug: no suffix, then 1, 2, ...
numberedCandidate(prefix, k) == IF k = 1 THEN prefix ELSE prefix \o ToString(k - 1)

\* C10 as claimed: a named publish is given the first of prefix, prefix-2,
\* prefix-3, ... that the store did not hold when the publish got the lock
C10_DashedSuffix ==
    \A p \in PubProcs :
        allocated(p) /\ pub[p].m.name # Undefined =>
            \E k \in 1 .. Cardinality(DOMAIN pub[p].before.store) + 1 :
                /\ getPath(pub[p].entry) = dashedCandidate(pub[p].prefix, k)
                /\ \A j \in 1 .. k - 1 : exists(pub[p].before.store, dashedCandidate(pub[p].prefix, j))

\* C10 as amended: a named publish is given the first of prefix, prefix1, prefix2,
\* ... that the store did not hold when the publish got the lock, prefix being
\* /YYYY/M/D/kebab(name)
C10_NumberedSuffix ==
    \A p \in PubProcs :
        allocated(p) /\ pub[p].m.name # Undefined =>
            /\ pub[p].prefix = datepart(pub[p].entry.published) \o "/" \o kebabCase(pub[p].m.name)
            /\ \E k \in 1 .. Cardinality(DOMAIN pub[p].before.store) + 1 :
                /\ getPath(pub[p].entry) = numberedCandidate(pub[p].prefix, k)
                /\ ~exists(pub[p].before.store, numberedCandidate(pub[p].prefix, k))
                /\ \A j \in 1 .. k - 1 : exists(pub[p].before.store, numberedCandidate(pub[p].prefix, j))

\* C10: the second publish of the day named Hello is given /2024/3/2/hello1
C10_Witness ==
    \E p \in PubProcs :
        /\ allocated(p)
        /\ pub[p].m.name = "Hello"
        /\ getPath(pub[p].entry) = "/2024/3/2/hello1"
        /\ exists(store, "/2024/3/2/hello")

\* C11: while the commit of a publish is awaited the publish holds the mutex, and
\* once it is at sendWebmentionsFor its commit has answered and it has released
\* the mutex
C11_CommitLockedNotifyUnlocked ==
    \A p \in PubProcs :
        /\ pub[p].pc = "commit" => mutex.holder = p
        /\ pub[p].pc = "notify" => pub[p].committed /\ mutex.holder # p

\* C11: a publish is delivering its webmentions while another call holds the mutex
C11_Witness ==
    \E p \in PubProcs :
        /\ pub[p].pc = "notify" /\ pub[p].sent # <<>>
        /\ mutex.holder \notin {None, p}

\* a publish is in its syndication step: the posse.syndicate call, or the second
\* update, regeneration and commit that record the syndication URLs
inSyndication(p) ==
    \/ pub[p].pc = "syndicate"
    \/ pub[p].second /\ pub[p].pc \in {"put", "gen", "commit"}

\* C12: a publish in its syndication step has released the mutex
C12_SyndicationAfterRelease ==
    \A p \in PubProcs : inSyndication(p) => mutex.holder # p

\* C13: no publish fails because posse.syndicate failed
C13_SyndicationFailureSwallowed ==
    \A p \in PubProcs : ~(pub[p].pc = "failed" /\ pub[p].at = "syndicate")

\* C14: a publish that failed to resolve its replyTo, likeOf or repostOf target has
\* written nothing: the store and the index are as they were when it got the lock,
\* the index has no entry at its URL, and no commit was issued
C14_UnresolvedReferenceWritesNothing ==
    \A p \in PubProcs :
        pub[p].pc = "failed" /\ pub[p].at = "resolve" =>
            /\ pub[p].err = "UpstreamFailure"
            /\ store = pub[p].before.store
            /\ entries = pub[p].before.entries
            /\ ~has(entries, pub[p].entry.url)
            /\ ~exists(store, getPath(pub[p].entry))
            /\ ~pub[p].committed /\ pub[p].gens = 0

\* C14: a reply to a page that cannot be fetched failed, on a site that has an entry
C14_Witness ==
    \E p \in PubProcs :
        /\ pub[p].pc = "failed" /\ pub[p].at = "resolve"
        /\ isReply(pub[p].entry) /\ Len(entries) = 1

\* C15: sendWebmentionsFor attempts the delivery to every link of the entry,
\* whichever deliveries failed before, and no publish fails in it: a publish that
\* reached it returns its entry
C15_EveryLinkNotified ==
    \A p \in PubProcs :
        /\ pub[p].pc = "notify" => Len(pub[p].sent) = pub[p].i
        /\ pub[p].pc = "done" => Len(pub[p].sent) = Len(getMentions(pub[p].entry))
        /\ pub[p].pc = "failed" => pub[p].at # "notify" /\ pub[p].sent = <<>>

\* C15: the first delivery failed, the second was made all the same, and the
\* publish returned
C15_Witness ==
    \E p \in PubProcs : pub[p].pc = "done" /\ pub[p].sent = <<FALSE, TRUE>>

RECURSIVE picked(_, _)
\* the links whose lookup answered, in order
picked(links, oks) ==
    IF links = <<>> \/ oks = <<>> THEN <<>>
    ELSE (IF Head(oks) THEN <<Head(links)>> ELSE <<>>) \o picked(Tail(links), Tail(oks))

\* C16: a publish past its oembed loop has looked up every link of the content and
\* carries the embeds of the lookups that answered; no publish fails in the loop,
\* and a publish that returned has its entry, with these embeds, stored, indexed
\* and committed
C16_OembedFailuresSwallowed ==
    \A p \in PubProcs :
        /\ pub[p].pc \in {"parse", "put", "gen", "syndicate", "commit", "notify", "done"} =>
              /\ Len(pub[p].tried) = Len(getMentions(pub[p].entry))
              /\ pub[p].entry.embed = picked(getMentions(pub[p].entry), pub[p].tried)
        /\ pub[p].pc = "failed" => pub[p].at # "oembed"
        /\ pub[p].pc = "done" =>
              /\ pub[p].committed
              /\ has(entries, pub[p].entry.url)
              /\ mapGet(entries, pub[p].entry.url).embed = pub[p].entry.embed
              /\ exists(store, getPath(pub[p].entry))
              /\ store[getPath(pub[p].entry)].mf.embed = pub[p].entry.embed

\* C16: the first lookup failed and the second answered, and the publish returned
\* with the one embed
C16_Witness ==
    \E p \in PubProcs :
        /\ pub[p].pc = "done" /\ pub[p].tried = <<FALSE, TRUE>>
        /\ mapGet(entries, pub[p].entry.url).embed = <<"http://example.org">>

\* the receive was rejected by one of the three checks of receiveWebmention
rejected(r) ==
    rcv[r].pc = "failed" /\ rcv[r].err \in {"BadRequest: Target not found",
                                           "BadRequest: Source not found",
                                           "BadRequest: Link to target not found"}

\* C19: POST /webmention answers a rejected receive with a 4xx status and a receive
\* that succeeded with 200
C19_RejectionIsClientError ==
    \A r \in RecvProcs :
        /\ rejected(r) => rcv[r].status \in 400 .. 499
        /\ rcv[r].pc = "done" => rcv[r].status = 200

admissible(st, k) ==
    /\ \A pre \in ReservedPrefixes : ~startsWith(k, pre)
    /\ st[k].ContentType = "text/html"
    /\ parses(st[k])
    /\ \/ parsed(st[k]).url = resolve(SiteUrl, k)
       \/ parsed(st[k]).url \o ".html" = resolve(SiteUrl, k)

\* C17: the index a scan leaves holds the parsed entries of the admissible
\* objects of the store and nothing else, and a scan fails only when the store
\* fails, never on an object it drops
C17_ScanAdmission ==
    /\ scn.pc = "done" =>
          Range(entries) = {parsed(store[k]) : k \in {x \in DOMAIN store : admissible(store, x)}}
    /\ scn.pc = "get" =>
          Range(scn.entries) \subseteq
              {parsed(store[k]) : k \in {x \in DOMAIN store : admissible(store, x)}}
    /\ scn.pc = "failed" => scn.err = "StoreFailure"

\* C17: a scan is over that admitted the entry stored with .html and dropped a
\* page under another entry's URL and an entry under a reserved prefix
C17_Witness ==
    /\ scn.pc = "done"
    /\ DOMAIN store = {"/2024/3/2/1.html", "/2024/3/2/copy", "indexed"}
    /\ Len(entries) = 1
    /\ entries[1].url = SiteUrl \o "/2024/3/2/1"

\* C18: until a scan is over the index is the one it found, and so is what a
\* reader got meanwhile; a scan that failed leaves that index; a scan that is over
\* leaves the full index of the store
C18_ScanAtomic ==
    /\ scn.pc \in {"list", "get", "failed"} => entries = scn.before
    /\ scn.seen.at \in {"list", "get", "failed"} => scn.seen.index = scn.before
    /\ scn.pc = "done" =>
          /\ entries = scn.entries
          /\ {e.url : e \in Range(entries)} =
                {parsed(store[k]).url : k \in {x \in DOMAIN store : admissible(store, x)}}
          /\ scn.seen.at = "done" => scn.seen.index = entries

\* C18: a reader got the index the scan found, with its stale entry, while the
\* scan had one of two entries in hand
C18_Witness ==
    /\ scn.pc = "get"
    /\ Len(scn.entries) = 1 /\ scn.keys # {}
    /\ scn.seen.at = "get"
    /\ Len(scn.seen.index) = 1 /\ scn.seen.index = scn.before
    /\ scn.seen.index # scn.entries

\* the steps of a successful publish, without and with syndication
PublishSteps ==
    {<<"put", "index", "pages", "commit", "release", "notify">>,
     <<"put", "index", "pages", "put", "index", "pages", "commit", "release", "notify">>}

\* C21: a publish that got to its commit has put its entry page, set the entry in
\* the index and written every derived page, in this order; a publish that
\* succeeded has then committed, released the lock and started its deliveries, and
\* the index has one entry more than before, the one at its URL
C21_PublishStepOrder ==
    \A p \in PubProcs :
        /\ pub[p].pc = "commit" =>
              /\ pub[p].log \o <<"commit", "release", "notify">> \in PublishSteps
              /\ \A i \in DOMAIN generateStreams(entries) :
                    /\ exists(store, generateStreams(entries)[i].key)
                    /\ store[generateStreams(entries)[i].key] = generateStreams(entries)[i].doc
        /\ pub[p].pc \in {"notify", "done"} =>
              /\ pub[p].log \in PublishSteps
              /\ ~has(pub[p].before.entries, pub[p].entry.url)
              /\ Len(entries) = Len(pub[p].before.entries) + 1
              /\ mapDelete(entries, pub[p].entry.url) = pub[p].before.entries

\* C21: a publish with syndication succeeded on a site that had an entry
C21_Witness ==
    \E p \in PubProcs :
        /\ pub[p].pc = "done" /\ Len(pub[p].log) = 9 /\ Len(entries) = 2

\* a receive is between the grant of the lock and the answer of its commit
inReceive(r) == rcv[r].pc \in {"fetch", "put", "commit"}

\* C22: a receive in its critical section holds the mutex and no publish is in its
\* own; and no step of a publish changes the store or the index while a receive is
\* in its critical section, nor a step of a receive while a publish is in its own
C22_ReceivePublishExclusive ==
    /\ [](\A r \in RecvProcs :
            inReceive(r) => mutex.holder = r /\ \A p \in PubProcs : ~inPublish(p))
    /\ [][(store' # store \/ entries' # entries) =>
            /\ (\E r \in RecvProcs : inReceive(r)) =>
                  \A p \in PubProcs : pub'[p].pc = pub[p].pc /\ pub'[p].puts = pub[p].puts
            /\ (\E p \in PubProcs : inPublish(p)) =>
                  \A r \in RecvProcs : rcv'[r].pc = rcv[r].pc]_vars

\* C22: a receive is in its critical section, grafting onto the entry of a publish
\* that is still sending its webmentions
C22_Witness ==
    \E r \in RecvProcs, q \in PubProcs :
        /\ rcv[r].pc = "put" /\ mutex.holder = r
        /\ pub[q].pc = "notify"
        /\ rcv[r].target = pub[q].entry.url

\* C26: a publish that is over, with success or with a failure, has called the
\* release function of its lock once, and at no time when another caller held
\* the lock
C26_ReleaseCalledOnce ==
    \A p \in PubProcs :
        pub[p].pc \in {"done", "failed"} => pub[p].releases = 1 /\ ~pub[p].late

\* a delete is between its store delete and the end of its regeneration
inDelete(d) == del[d].pc \in {"delete", "gen"}

\* C24: while a delete is between its store delete and the end of its
\* regeneration, no publish and no receive is in its critical section
C24_DeleteExclusive ==
    \A d \in DelProcs :
        inDelete(d) =>
            /\ \A p \in PubProcs : ~inPublish(p)
            /\ \A r \in RecvProcs : ~inReceive(r)

\* the URLs the pages of one kind among the puts of a regeneration list, in order
listed(puts, kind) ==
    LET sp == SelectSeq(puts, LAMBDA w : w.doc.kind = kind)
    IN flatten([i \in DOMAIN sp |-> sp[i].doc.urls])

\* C28: the pages of the main stream and of the reply stream that a regeneration
\* writes list every entry of the index that is not hidden once, on one page of one
\* of the two streams, a like on the reply stream, and list no other entry
C28_StreamsPartition ==
    \A puts \in regenerations :
        LET both == listed(puts, "stream") \o listed(puts, "replies")
        IN /\ \A i \in DOMAIN entries :
                ~isHidden(entries[i]) =>
                    /\ Cardinality({j \in DOMAIN both : both[j] = entries[i].url}) = 1
                    /\ isLike(entries[i]) => entries[i].url \in Range(listed(puts, "replies"))
           /\ \A j \in DOMAIN both :
                has(entries, both[j]) /\ ~isHidden(mapGet(entries, both[j]))

\* C28: a regeneration writes a note on the main stream and a like on the reply
\* stream
C28_Witness ==
    \E puts \in regenerations :
        /\ Len(listed(puts, "stream")) = 1
        /\ Len(listed(puts, "replies")) = 1
        /\ isLike(mapGet(entries, listed(puts, "replies")[1]))

\* C29: the key at which a publish is about to put its attached media is the
\* path of no entry page of the store and not the path its own entry is written
\* to, and once the publish is over the media is still at that key
C29_MediaKeyApart ==
    \A p \in PubProcs :
        /\ pub[p].pc = "photo" =>
              /\ mediaKey(pub[p].entry) # getPath(pub[p].entry)
              /\ \A k \in DOMAIN store : isEntryDoc(store[k]) => k # mediaKey(pub[p].entry)
        /\ pub[p].pc = "done" /\ pub[p].entry.photo # Undefined =>
              store[mediaKey(pub[p].entry)].kind = "media"

\* C23: a publish or a receive that holds the mutex releases it in the end, and
\* one that waits for the mutex gets it and comes to its end, whatever failed
\* before
C23_LockAlwaysReleased ==
    /\ \A p \in PubProcs :
          /\ (mutex.holder = p) ~> (mutex.holder # p)
          /\ (pub[p].pc = "lock") ~> finished(pub[p])
    /\ \A r \in RecvProcs :
          /\ (mutex.holder = r) ~> (mutex.holder # r)
          /\ (rcv[r].pc = "lock") ~> finished(rcv[r])

\* C23: a call holds the mutex after it waited for a publish that failed with the
\* mutex in its hands
C23_Witness ==
    \E p \in PubProcs :
        /\ pub[p].pc = "failed" /\ pub[p].at \in {"put", "gen", "commit"}
        /\ mutex.holder \notin {None, p}

\* the key holds a canonical entry: an HTML page that parses to an entry whose URL is
\* the key's, with or without .html
canonical(key) ==
    /\ store[key].ContentType = "text/html"
    /\ parses(store[key])
    /\ admits(parsed(store[key]).url, resolve(SiteUrl, key))

\* the canonical entry of the key differs once rendered and parsed again
mismatches(key) ==
    canonical(key) /\ getEntryFromHtml(renderEntry(parsed(store[key]))) # parsed(store[key])

\* C25: when validate() is over, a key of the store is among the reported records
\* exactly when it holds a canonical entry whose rendered and re-parsed form differs
\* from the entry first parsed, and the expected entry of every reported record is
\* the entry parsed from the object of that record's key
C25_ValidateReportsExact ==
    val.pc = "done" =>
        /\ \A key \in DOMAIN store :
              mismatches(key) <=> \E i \in DOMAIN val.failures : val.failures[i].key = key
        /\ \A i \in DOMAIN val.failures :
              /\ parses(store[val.failures[i].key])
              /\ val.failures[i].expected = parsed(store[val.failures[i].key])

\* C27: once a scan and every publish, delete and receive are over, the index has
\* the entry of every publish that completed, has no entry a completed delete
\* removed, and the target of every completed receive carries the source as a child
C27_ScanKeepsEffects ==
    (scn.pc = "done" /\ \A p \in PubProcs : finished(pub[p])
                     /\ \A d \in DelProcs : finished(del[d])
                     /\ \A r \in RecvProcs : finished(rcv[r])) =>
        /\ \A p \in PubProcs :
              (pub[p].pc = "done" /\ \A d \in DelProcs : del[d].url # pub[p].entry.url) =>
                  has(entries, pub[p].entry.url)
        /\ \A d \in DelProcs :
              (del[d].pc = "done" /\ \A p \in PubProcs : pub[p].entry.url # del[d].url) =>
                  ~has(entries, del[d].url)
        /\ \A r \in RecvProcs :
              (rcv[r].pc = "done" /\ \A d \in DelProcs : del[d].url # rcv[r].target) =>
                  /\ has(entries, rcv[r].target)
                  /\ \E i \in DOMAIN mapGet(entries, rcv[r].target).children :
                        mapGet(entries, rcv[r].target).children[i].url = rcv[r].source

\* the number of calls of generateToken for a code
tokensFor(code) == Cardinality({i \in DOMAIN auth.invoked : auth.invoked[i] = code})

\* C30: generateToken is called at most once for a code POST /auth issued, and no
\* code is accepted once a token was answered for it
C30_CodeRedeemedOnce ==
    /\ \A code \in 1 .. MaxCodes : tokensFor(code) <= 1
    /\ auth.stale = {}

\* C31: at any time t since the limiter was made, the requests admitted so far are
\* at most count + t * count / cooldown (both sides times cooldown)
C31_AdmittedWithinRate ==
    lim.admitted * cooldown <= count * cooldown + lim.clock * count

====
